---- MODULE Spec2Model ----
(***************************************************************************)
(* Model of src/app.py: the Flask service that geocodes three place names, *)
(* computes their geographic centroid, reverse-geocodes it and reports a   *)
(* star graph A-M, B-M, C-M with the distances to the centroid.            *)
(*                                                                         *)
(* Floating-point trigonometry (haversine, geographic_centroid) is left    *)
(* uninterpreted: its results are terms that record the function and its   *)
(* arguments.  Everything else (validation, envelope parsing, exception    *)
(* classes and their handlers, the call order, the graph, the history      *)
(* list) is modelled by what the code does.                                *)
(***************************************************************************)
EXTENDS Integers, Sequences, FiniteSets, TLC

VARIABLES
    GEOCODING_API_TOKEN,  \* app.py:18, read once from the environment
    midpoint_results,     \* app.py:11, the in-memory history list
    pc,                   \* position of the midpoint_api handler
    data,                 \* app.py:186, the request's JSON body
    loc,                  \* local variables of the running midpoint_api call
    calls,                \* HTTP requests the running call has sent, in order
    response,             \* what the last finished midpoint_api call returned
    returned,             \* the records returned with status 200, in order
    nreq,                 \* number of midpoint_api requests started
    listing,              \* what the last get_results call returned
    fn                    \* last direct call of a helper function (SpecFn)

vars == <<GEOCODING_API_TOKEN, midpoint_results, pc, data, loc, calls,
          response, returned, nreq, listing, fn>>

(***************************************************************************)
(* Bounds.                                                                 *)
(***************************************************************************)
MaxRequests == 2   \* midpoint_api requests in one behaviour
MaxWeight == 2     \* numeric values tried for each haversine distance

(***************************************************************************)
(* Python values.  None and strings are kept apart by a tag so that values *)
(* of one field always have one shape.                                     *)
(***************************************************************************)
PyNone == [t |-> "none", s |-> ""]
PyStr(s) == [t |-> "str", s |-> s]

\* Python truthiness of None / str (used by "if not x").
Truthy(x) == x.t = "str" /\ x.s /= ""

\* JSON scalars found under "latitude" / "longitude".
JNum(n) == [t |-> "num", v |-> n]        \* a JSON number n
JNumStr(n) == [t |-> "numstr", v |-> n]  \* the JSON string that spells n
JBadStr == [t |-> "badstr", v |-> 0]     \* a JSON string such as "abc"
JNull == [t |-> "null", v |-> 0]         \* JSON null
JAbsent == [t |-> "absent", v |-> 0]     \* the key is not in the mapping

\* JSON values found under "element".
ElemObj(lat, lon, label) ==
    [t |-> "obj", latitude |-> lat, longitude |-> lon, label |-> label]
ElemNull == [t |-> "null", latitude |-> JAbsent, longitude |-> JAbsent, label |-> ""]
ElemAbsent == [t |-> "absent", latitude |-> JAbsent, longitude |-> JAbsent, label |-> ""]

\* JSON values found under "elements".
ElementsAbsent == [t |-> "absent", element |-> ElemAbsent]
ElementsList == [t |-> "nonmap", element |-> ElemAbsent]
ElementsMap(e) == [t |-> "map", element |-> e]

\* Response bodies: not JSON at all, a JSON value that is no object, or an
\* object with its "success", "element" and "elements" members.
BodyNotJson ==
    [t |-> "notjson", success |-> "absent", element |-> ElemAbsent, elements |-> ElementsAbsent]
BodyList ==
    [t |-> "nonobj", success |-> "absent", element |-> ElemAbsent, elements |-> ElementsAbsent]
BodyObj(success, element, elements) ==
    [t |-> "obj", success |-> success, element |-> element, elements |-> elements]
NoData == [t |-> "nodata", success |-> "absent", element |-> ElemAbsent, elements |-> ElementsAbsent]

\* What the remote service does with one HTTP request.
Timeout == [kind |-> "timeout", status |-> 0, body |-> BodyNotJson]
ConnectionError == [kind |-> "connection", status |-> 0, body |-> BodyNotJson]
Http(status, body) == [kind |-> "http", status |-> status, body |-> body]

(***************************************************************************)
(* Exceptions.  cls is the set of classes the exception is an instance of, *)
(* as far as the handlers of midpoint_api tell them apart.                 *)
(***************************************************************************)
NoCtx == [op |-> "", address |-> PyNone]
NoExc == [cls |-> {}, kind |-> "none", ctx |-> NoCtx, data |-> NoData]
Raise(cls, kind, ctx, d) == [cls |-> cls, kind |-> kind, ctx |-> ctx, data |-> d]
Raised(r) == r.exc /= NoExc

NoVal == [t |-> "noval"]

(***************************************************************************)
(* extract_element (app.py:24-38).                                         *)
(***************************************************************************)
Ctx(op, address) == [op |-> op, address |-> address]

\* extract_element with the two envelope shapes looked up in the other order.
extract_element_nested_first(d, contexto) ==
    IF d.t /= "obj"
    THEN [exc |-> Raise({"AttributeError"}, "no_get", contexto, NoData), val |-> ElemAbsent]
    ELSE IF d.elements.t = "map" /\ d.elements.element.t /= "absent"
    THEN [exc |-> NoExc, val |-> d.elements.element]
    ELSE IF d.element.t /= "absent"
    THEN [exc |-> NoExc, val |-> d.element]
    ELSE [exc |-> Raise({"ValueError"}, "unexpected_response", contexto, d), val |-> ElemAbsent]

extract_element(d, contexto) ==
    IF d.t /= "obj"
    THEN \* a JSON array: '"element" in data' is false, data.get does not exist
         [exc |-> Raise({"AttributeError"}, "no_get", contexto, NoData), val |-> ElemAbsent]
    ELSE IF d.element.t /= "absent"
    THEN [exc |-> NoExc, val |-> d.element]
    ELSE IF d.elements.t = "map" /\ d.elements.element.t /= "absent"
    THEN [exc |-> NoExc, val |-> d.elements.element]
    ELSE [exc |-> Raise({"ValueError"}, "unexpected_response", contexto, d), val |-> ElemAbsent]

(***************************************************************************)
(* requests.post, raise_for_status, resp.json (app.py:59-61, 100-102).     *)
(* Timeout, ConnectionError and HTTPError are RequestExceptions;           *)
(* raise_for_status raises for 4xx and 5xx only; the JSONDecodeError of    *)
(* resp.json is both a RequestException and a ValueError.                  *)
(***************************************************************************)
post_json(resp, contexto) ==
    IF resp.kind = "timeout"
    THEN [exc |-> Raise({"RequestException"}, "timeout", contexto, NoData), val |-> NoData]
    ELSE IF resp.kind = "connection"
    THEN [exc |-> Raise({"RequestException"}, "connection", contexto, NoData), val |-> NoData]
    ELSE IF resp.status >= 400 /\ resp.status < 600
    THEN [exc |-> Raise({"RequestException"}, "http_error", contexto, NoData), val |-> NoData]
    ELSE IF resp.body.t = "notjson"
    THEN [exc |-> Raise({"RequestException", "ValueError"}, "json_decode", contexto, NoData),
          val |-> NoData]
    ELSE [exc |-> NoExc, val |-> resp.body]

\* float(x) for a JSON scalar x (app.py:68-69).
float(x, contexto) ==
    CASE x.t = "num" -> [exc |-> NoExc, val |-> x.v]
      [] x.t = "numstr" -> [exc |-> NoExc, val |-> x.v]
      [] x.t = "badstr" -> [exc |-> Raise({"ValueError"}, "float", contexto, NoData), val |-> 0]
      [] OTHER -> [exc |-> Raise({"TypeError"}, "float", contexto, NoData), val |-> 0]

\* element[key] followed by float (app.py:68, 69).
coordinate(element, key, contexto) ==
    IF element.t /= "obj"
    THEN [exc |-> Raise({"TypeError"}, "subscript", contexto, NoData), val |-> 0]
    ELSE LET x == IF key = "latitude" THEN element.latitude ELSE element.longitude IN
         IF x.t = "absent"
         THEN [exc |-> Raise({"KeyError"}, key, contexto, NoData), val |-> 0]
         ELSE float(x, contexto)

(***************************************************************************)
(* geocode_city (app.py:44-71).  resp is what the remote service does with *)
(* the request, should one be sent.                                        *)
(***************************************************************************)
GEOCODING_URL == "https://geocoding.openapi.it/geocode"
REVERSE_URL == "https://geocoding.openapi.it/reverse"

NoRequest == [url |-> "", json |-> NoVal]
Failed(e, sent) == [exc |-> e, val |-> NoVal, sent |-> sent]
Returns(v, sent) == [exc |-> NoExc, val |-> v, sent |-> sent]

geocode_parse(d, ctx) ==
    IF d.t /= "obj"
    THEN Failed(Raise({"AttributeError"}, "no_get", ctx, NoData), NoRequest)
    ELSE IF d.success /= "True"
    THEN Failed(Raise({"ValueError"}, "api_error", ctx, d), NoRequest)
    ELSE LET x == extract_element(d, ctx) IN
         IF x.exc /= NoExc THEN Failed(x.exc, NoRequest)
         ELSE LET lat == coordinate(x.val, "latitude", ctx) IN
              IF lat.exc /= NoExc THEN Failed(lat.exc, NoRequest)
              ELSE LET lon == coordinate(x.val, "longitude", ctx) IN
                   IF lon.exc /= NoExc THEN Failed(lon.exc, NoRequest)
                   ELSE Returns([lat |-> lat.val, lon |-> lon.val, raw |-> x.val], NoRequest)

geocode_city(token, address, resp) ==
    LET ctx == Ctx("geocode", address) IN
    IF ~Truthy(token)
    THEN Failed(Raise({"ValueError"}, "missing_token", ctx, NoData), NoRequest)
    ELSE LET sent == [url |-> GEOCODING_URL, json |-> [address |-> address]]
             j == post_json(resp, ctx)
             r == geocode_parse(j.val, ctx)
         IN  IF j.exc /= NoExc THEN Failed(j.exc, sent)
             ELSE [r EXCEPT !.sent = sent]

(***************************************************************************)
(* reverse_geocode (app.py:77-108).                                        *)
(***************************************************************************)
reverse_parse(d, ctx) ==
    IF d.t /= "obj"
    THEN Failed(Raise({"AttributeError"}, "no_get", ctx, NoData), NoRequest)
    ELSE IF d.success /= "True"
    THEN Failed(Raise({"ValueError"}, "api_error", ctx, d), NoRequest)
    ELSE LET x == extract_element(d, ctx) IN
         IF x.exc /= NoExc THEN Failed(x.exc, NoRequest)
         ELSE Returns(x.val, NoRequest)

\* reverse_geocode without the token check of app.py:87-88.
reverse_geocode_unchecked(token, lat, lon, resp) ==
    LET ctx == Ctx("reverse", PyNone)
        sent == [url |-> REVERSE_URL,
                 json |-> [type |-> "coordinates", lat |-> lat, long |-> lon]]
        j == post_json(resp, ctx)
        r == reverse_parse(j.val, ctx)
    IN  IF j.exc /= NoExc THEN Failed(j.exc, sent)
        ELSE [r EXCEPT !.sent = sent]

reverse_geocode(token, lat, lon, resp) ==
    LET ctx == Ctx("reverse", PyNone) IN
    IF ~Truthy(token)
    THEN Failed(Raise({"ValueError"}, "missing_token", ctx, NoData), NoRequest)
    ELSE LET sent == [url |-> REVERSE_URL,
                      json |-> [type |-> "coordinates", lat |-> lat, long |-> lon]]
             j == post_json(resp, ctx)
             r == reverse_parse(j.val, ctx)
         IN  IF j.exc /= NoExc THEN Failed(j.exc, sent)
             ELSE [r EXCEPT !.sent = sent]

(***************************************************************************)
(* haversine and geographic_centroid (app.py:114-163): uninterpreted terms *)
(* over their arguments.                                                   *)
(***************************************************************************)
haversine(lat1, lon1, lat2, lon2) ==
    [fn |-> "haversine", args |-> <<lat1, lon1, lat2, lon2>>]

geographic_centroid(points) ==
    IF points = <<>>
    THEN Failed(Raise({"ValueError"}, "empty_points", Ctx("centroid", PyNone), NoData), NoRequest)
    ELSE Returns([lat |-> [fn |-> "centroid_lat", pts |-> points],
                  lon |-> [fn |-> "centroid_lon", pts |-> points]], NoRequest)

(***************************************************************************)
(* The networkx graph (app.py:222-235): node attributes, undirected        *)
(* weighted edges, and the weighted shortest path.  The weights are        *)
(* haversine terms; w gives each term a numeric value.                     *)
(***************************************************************************)
EmptyGraph == [node |-> <<>>, edge |-> {}]

add_node(G, n, attrs) ==
    [G EXCEPT !.node = [x \in DOMAIN G.node \cup {n} |->
                            IF x = n THEN attrs ELSE G.node[x]]]

add_edge(G, u, v, weight) ==
    [G EXCEPT !.edge = {e \in G.edge : e.ends /= {u, v}}
                           \cup {[ends |-> {u, v}, weight |-> weight]}]

Weights(G) == {e.weight : e \in G.edge}

\* The simple paths from the end of p to target that extend p.
RECURSIVE extend_paths(_, _, _)
extend_paths(G, p, target) ==
    LET last == p[Len(p)]
        seen == {p[i] : i \in 1..Len(p)}
        next == {n \in DOMAIN G.node \ seen : \E e \in G.edge : e.ends = {last, n}}
    IN  IF last = target THEN {p}
        ELSE UNION {extend_paths(G, Append(p, n), target) : n \in next}

simple_paths(G, source, target) == extend_paths(G, <<source>>, target)

RECURSIVE path_weight(_, _, _)
path_weight(G, p, w) ==
    IF Len(p) < 2 THEN 0
    ELSE w[(CHOOSE e \in G.edge : e.ends = {p[1], p[2]}).weight]
             + path_weight(G, Tail(p), w)

\* nx.shortest_path(G, source, target, weight="weight"); the star has one
\* simple path per pair, so no tie has to be broken.
shortest_path(G, source, target, w) ==
    LET P == simple_paths(G, source, target) IN
    CHOOSE p \in P : \A q \in P : path_weight(G, p, w) <= path_weight(G, q, w)

(***************************************************************************)
(* midpoint_api (app.py:175-277), cut at its remote calls.                 *)
(***************************************************************************)
NoResponse == [status |-> 0, kind |-> "pending", error |-> NoExc, body |-> NoVal]

\* jsonify({"error": "Forneça cityA, cityB e cityC"}), 400 (app.py:193).
InvalidInput == [status |-> 400, kind |-> "invalid_input", error |-> NoExc, body |-> NoVal]

\* The except clauses (app.py:211-214), tried in order; any other exception
\* leaves the view function and Flask answers 500.
except_clause(e) ==
    IF "ValueError" \in e.cls
    THEN [status |-> 400, kind |-> "value_error", error |-> e, body |-> NoVal]
    ELSE IF "RequestException" \in e.cls
    THEN [status |-> 502, kind |-> "network", error |-> e, body |-> NoVal]
    ELSE [status |-> 500, kind |-> "unhandled", error |-> e, body |-> NoVal]

NoLocals ==
    [cityA |-> PyNone, cityB |-> PyNone, cityC |-> PyNone,
     A |-> NoVal, B |-> NoVal, C |-> NoVal, M |-> NoVal, mid_raw |-> ElemAbsent,
     G |-> EmptyGraph, result |-> NoVal]

\* valid_input that asks for cityA and cityB only.
valid_input_two(cityA, cityB, cityC) == Truthy(cityA) /\ Truthy(cityB)

\* "if not cityA or not cityB or not cityC" (app.py:192), negated.
valid_input(cityA, cityB, cityC) == Truthy(cityA) /\ Truthy(cityB) /\ Truthy(cityC)

\* step_validate whose rejection does not end the handler.
step_validate_continue(d) ==
    IF d.t /= "obj"
    THEN [pc |-> "idle", loc |-> NoLocals,
          response |-> except_clause(Raise({"AttributeError"}, "no_get", NoCtx, NoData))]
    ELSE LET l == [NoLocals EXCEPT !.cityA = d.cityA, !.cityB = d.cityB, !.cityC = d.cityC] IN
         IF ~(Truthy(d.cityA) /\ Truthy(d.cityB) /\ Truthy(d.cityC))
         THEN [pc |-> "geoA", loc |-> l, response |-> InvalidInput]
         ELSE [pc |-> "geoA", loc |-> l, response |-> NoResponse]

\* app.py:186-193.  request.get_json() gives d; d.get fails on a body that
\* is no JSON object.
step_validate(d) ==
    IF d.t /= "obj"
    THEN [pc |-> "idle", loc |-> NoLocals,
          response |-> except_clause(Raise({"AttributeError"}, "no_get", NoCtx, NoData))]
    ELSE LET l == [NoLocals EXCEPT !.cityA = d.cityA, !.cityB = d.cityB, !.cityC = d.cityC] IN
         IF ~valid_input(d.cityA, d.cityB, d.cityC)
         THEN [pc |-> "idle", loc |-> l, response |-> InvalidInput]
         ELSE [pc |-> "geoA", loc |-> l, response |-> NoResponse]

\* app.py:197-199: one geocode_city call, its result bound to the locals.
step_geocode(at, token, l, resp) ==
    LET address == CASE at = "geoA" -> l.cityA [] at = "geoB" -> l.cityB [] OTHER -> l.cityC
        r == geocode_city(token, address, resp)
    IN  IF r.exc /= NoExc
        THEN [pc |-> "idle", loc |-> l, response |-> except_clause(r.exc), sent |-> r.sent,
              ok |-> FALSE]
        ELSE CASE at = "geoA" ->
                    [pc |-> "geoB", loc |-> [l EXCEPT !.A = r.val],
                     response |-> NoResponse, sent |-> r.sent, ok |-> TRUE]
               [] at = "geoB" ->
                    [pc |-> "geoC", loc |-> [l EXCEPT !.B = r.val],
                     response |-> NoResponse, sent |-> r.sent, ok |-> TRUE]
               [] OTHER ->
                    [pc |-> "centroid", loc |-> [l EXCEPT !.C = r.val],
                     response |-> NoResponse, sent |-> r.sent, ok |-> TRUE]

\* step_centroid that leaves the third city out of the centroid.
step_centroid_two(l) ==
    LET r == geographic_centroid(<< <<l.A.lat, l.A.lon>>, <<l.B.lat, l.B.lon>> >>)
    IN  IF r.exc /= NoExc
        THEN [pc |-> "idle", loc |-> l, response |-> except_clause(r.exc)]
        ELSE [pc |-> "reverse", loc |-> [l EXCEPT !.M = r.val], response |-> NoResponse]

\* app.py:202-206.
step_centroid(l) ==
    LET r == geographic_centroid(<< <<l.A.lat, l.A.lon>>, <<l.B.lat, l.B.lon>>,
                                    <<l.C.lat, l.C.lon>> >>)
    IN  IF r.exc /= NoExc
        THEN [pc |-> "idle", loc |-> l, response |-> except_clause(r.exc)]
        ELSE [pc |-> "reverse", loc |-> [l EXCEPT !.M = r.val], response |-> NoResponse]

\* step_reverse that goes on without the centre's record when the call fails.
step_reverse_partial(token, l, resp) ==
    LET r == reverse_geocode(token, l.M.lat, l.M.lon, resp) IN
    IF r.exc /= NoExc
    THEN [pc |-> "finish", loc |-> l, response |-> NoResponse, sent |-> r.sent, ok |-> FALSE]
    ELSE [pc |-> "finish", loc |-> [l EXCEPT !.mid_raw = r.val],
          response |-> NoResponse, sent |-> r.sent, ok |-> TRUE]

\* app.py:209.
step_reverse(token, l, resp) ==
    LET r == reverse_geocode(token, l.M.lat, l.M.lon, resp) IN
    IF r.exc /= NoExc
    THEN [pc |-> "idle", loc |-> l, response |-> except_clause(r.exc), sent |-> r.sent,
              ok |-> FALSE]
    ELSE [pc |-> "finish", loc |-> [l EXCEPT !.mid_raw = r.val],
          response |-> NoResponse, sent |-> r.sent, ok |-> TRUE]

\* app.py:217-219.
distances(l) ==
    [A_to_M |-> haversine(l.A.lat, l.A.lon, l.M.lat, l.M.lon),
     B_to_M |-> haversine(l.B.lat, l.B.lon, l.M.lat, l.M.lon),
     C_to_M |-> haversine(l.C.lat, l.C.lon, l.M.lat, l.M.lon)]

\* build_graph with a direct edge between two cities.
build_graph_direct(l, dist) ==
    LET G1 == add_node(EmptyGraph, "A", [lat |-> l.A.lat, lon |-> l.A.lon])
        G2 == add_node(G1, "B", [lat |-> l.B.lat, lon |-> l.B.lon])
        G3 == add_node(G2, "C", [lat |-> l.C.lat, lon |-> l.C.lon])
        G4 == add_node(G3, "M", [lat |-> l.M.lat, lon |-> l.M.lon])
        G5 == add_edge(G4, "A", "M", dist.A_to_M)
        G6 == add_edge(G5, "B", "M", dist.B_to_M)
        G7 == add_edge(G6, "C", "M", dist.C_to_M)
    IN  add_edge(G7, "A", "B", dist.C_to_M)

\* app.py:222-230.
build_graph(l, dist) ==
    LET G1 == add_node(EmptyGraph, "A", [lat |-> l.A.lat, lon |-> l.A.lon])
        G2 == add_node(G1, "B", [lat |-> l.B.lat, lon |-> l.B.lon])
        G3 == add_node(G2, "C", [lat |-> l.C.lat, lon |-> l.C.lon])
        G4 == add_node(G3, "M", [lat |-> l.M.lat, lon |-> l.M.lon])
        G5 == add_edge(G4, "A", "M", dist.A_to_M)
        G6 == add_edge(G5, "B", "M", dist.B_to_M)
    IN  add_edge(G6, "C", "M", dist.C_to_M)

\* app.py:233-273.
build_result(l, dist, G, w) ==
    [cityA |-> [input |-> l.cityA, lat |-> l.A.lat, lon |-> l.A.lon, raw |-> l.A.raw],
     cityB |-> [input |-> l.cityB, lat |-> l.B.lat, lon |-> l.B.lon, raw |-> l.B.raw],
     cityC |-> [input |-> l.cityC, lat |-> l.C.lat, lon |-> l.C.lon, raw |-> l.C.raw],
     midpoint |-> [lat |-> l.M.lat, lon |-> l.M.lon, reverse |-> l.mid_raw],
     distances_km |-> dist,
     graph |-> [paths |-> [A_to_B_via_M |-> shortest_path(G, "A", "B", w),
                           A_to_C_via_M |-> shortest_path(G, "A", "C", w),
                           B_to_C_via_M |-> shortest_path(G, "B", "C", w)]]]

\* app.py:216-273: everything between the try block and the append.
step_finish(l, w) ==
    LET dist == distances(l)
        G == build_graph(l, dist)
    IN  [l EXCEPT !.G = G, !.result = build_result(l, dist, G, w)]

\* record_result that puts the newest record first.
record_result_front(results, result) == <<result>> \o results

\* midpoint_results.append(result) (app.py:275).
record_result(results, result) == Append(results, result)

\* get_results (app.py:280-286).
get_results(results) == results

(***************************************************************************)
(* The inputs the environment can supply.                                  *)
(***************************************************************************)
\* os.getenv gives None when the variable is unset; it may also be empty.
Tokens == {PyNone, PyStr(""), PyStr("tok")}

\* Request bodies: every pattern of absent / empty / non-empty names, and a
\* body that is no JSON object.
RequestObj(a, b, c) == [t |-> "obj", cityA |-> a, cityB |-> b, cityC |-> c]
RequestList == [t |-> "nonobj", cityA |-> PyNone, cityB |-> PyNone, cityC |-> PyNone]
Requests ==
    {RequestObj(a, b, c) : a \in {PyNone, PyStr(""), PyStr("Roma")},
                           b \in {PyNone, PyStr(""), PyStr("Oslo")},
                           c \in {PyNone, PyStr(""), PyStr("Lima")}}
        \cup {RequestList}

\* Values of "element" in a /geocode response.
GeoElements ==
    {ElemObj(JNum(10), JNumStr(20), "p"), ElemObj(JNumStr(41), JNum(12), "q"),
     ElemObj(JAbsent, JNum(12), "q"), ElemObj(JNum(10), JAbsent, "p"),
     ElemObj(JBadStr, JNum(12), "q"), ElemObj(JNum(10), JNull, "p"), ElemNull}

\* Values of "element" in a /reverse response.
RevElements == {ElemObj(JAbsent, JAbsent, "m"), ElemNull}

SuccessValues == {"True", "False", "absent", "one"}

\* Every envelope over the given elements: used for the direct calls.
Bodies(elems) ==
    {BodyObj(su, e, es) :
        su \in SuccessValues,
        e \in elems \cup {ElemAbsent},
        es \in {ElementsAbsent, ElementsList} \cup {ElementsMap(x) : x \in elems \cup {ElemAbsent}}}
        \cup {BodyList, BodyNotJson}

Responses(elems) ==
    {Timeout, ConnectionError, Http(404, BodyNotJson), Http(503, BodyNotJson)}
        \cup {Http(st, b) : st \in {200, 300}, b \in Bodies(elems)}

\* The envelopes the service is fed in whole runs: each element in both
\* envelope shapes, and one body for each way an envelope can be refused.
RunBodies(elems) ==
    {BodyObj("True", e, ElementsAbsent) : e \in elems}
        \cup {BodyObj("True", ElemAbsent, ElementsMap(e)) : e \in elems}
        \cup {BodyObj(su, ElemAbsent, ElementsAbsent) : su \in SuccessValues}
        \cup {BodyObj("False", e, ElementsAbsent) : e \in elems \cap {ElemNull}}
        \cup {BodyObj("True", ElemAbsent, ElementsList), BodyList, BodyNotJson}

RunResponses(elems) ==
    {Timeout, ConnectionError, Http(404, BodyNotJson), Http(503, BodyNotJson),
     Http(300, BodyNotJson)}
        \cup {Http(200, b) : b \in RunBodies(elems)}

(***************************************************************************)
(* The service: requests to /api/midpoint are handled one at a time, cut   *)
(* at the remote calls; /api/results may be asked at any moment.           *)
(***************************************************************************)
NoCall == [op |-> "none", in |-> NoVal, out |-> NoVal]

Init ==
    /\ GEOCODING_API_TOKEN \in Tokens
    /\ midpoint_results = <<>>
    /\ pc = "idle"
    /\ data = RequestList
    /\ loc = NoLocals
    /\ calls = <<>>
    /\ response = NoResponse
    /\ returned = <<>>
    /\ nreq = 0
    /\ listing = <<>>
    /\ fn = NoCall

Logged(log, sent, ok) ==
    IF sent = NoRequest THEN log ELSE Append(log, [request |-> sent, ok |-> ok])

\* POST /api/midpoint arrives: app.py:186-193.
Request ==
    /\ pc = "idle"
    /\ nreq < MaxRequests
    /\ \E d \in Requests :
          LET s == step_validate(d) IN
          /\ data' = d
          /\ pc' = s.pc
          /\ loc' = s.loc
          /\ response' = s.response
    /\ calls' = <<>>
    /\ nreq' = nreq + 1
    /\ UNCHANGED <<GEOCODING_API_TOKEN, midpoint_results, returned, listing, fn>>

\* app.py:197, 198, 199.
Geocode ==
    /\ pc \in {"geoA", "geoB", "geoC"}
    /\ \E resp \in RunResponses(GeoElements) :
          LET s == step_geocode(pc, GEOCODING_API_TOKEN, loc, resp) IN
          /\ pc' = s.pc
          /\ loc' = s.loc
          /\ response' = s.response
          /\ calls' = Logged(calls, s.sent, s.ok)
    /\ UNCHANGED <<GEOCODING_API_TOKEN, midpoint_results, data, returned, nreq, listing, fn>>

\* app.py:202-206.
Centroid ==
    /\ pc = "centroid"
    /\ LET s == step_centroid(loc) IN
          /\ pc' = s.pc
          /\ loc' = s.loc
          /\ response' = s.response
    /\ UNCHANGED <<GEOCODING_API_TOKEN, midpoint_results, data, calls, returned, nreq,
                   listing, fn>>

\* app.py:209.
Reverse ==
    /\ pc = "reverse"
    /\ \E resp \in RunResponses(RevElements \ {ElemNull}) :
          LET s == step_reverse(GEOCODING_API_TOKEN, loc, resp) IN
          /\ pc' = s.pc
          /\ loc' = s.loc
          /\ response' = s.response
          /\ calls' = Logged(calls, s.sent, s.ok)
    /\ UNCHANGED <<GEOCODING_API_TOKEN, midpoint_results, data, returned, nreq, listing, fn>>

\* app.py:216-277: distances, graph, paths, result, append, return.
Finish ==
    /\ pc = "finish"
    /\ \E w \in [Weights(build_graph(loc, distances(loc))) -> 0..MaxWeight] :
          LET l == step_finish(loc, w) IN
          /\ loc' = l
          /\ midpoint_results' = record_result(midpoint_results, l.result)
          /\ response' = [status |-> 200, kind |-> "ok", error |-> NoExc, body |-> l.result]
          /\ returned' = Append(returned, l.result)
    /\ pc' = "idle"
    /\ UNCHANGED <<GEOCODING_API_TOKEN, data, calls, nreq, listing, fn>>

\* GET /api/results: app.py:280-286.
GetResults ==
    /\ listing' = get_results(midpoint_results)
    /\ listing' /= listing
    /\ UNCHANGED <<GEOCODING_API_TOKEN, midpoint_results, pc, data, loc, calls, response,
                   returned, nreq, fn>>

Next == Request \/ Geocode \/ Centroid \/ Reverse \/ Finish \/ GetResults

Spec == Init /\ [][Next]_vars

(***************************************************************************)
(* The helper functions called directly, on every sample input.            *)
(***************************************************************************)
CallExtract ==
    /\ fn = NoCall
    /\ \E d \in Bodies(GeoElements) \ {BodyNotJson} :
          fn' = [op |-> "extract_element", in |-> d,
                 out |-> extract_element(d, Ctx("reverse", PyNone))]
    /\ UNCHANGED <<GEOCODING_API_TOKEN, midpoint_results, pc, data, loc, calls, response,
                   returned, nreq, listing>>

CallGeocode ==
    /\ fn = NoCall
    /\ \E resp \in Responses(GeoElements) :
          fn' = [op |-> "geocode_city", in |-> resp,
                 out |-> geocode_city(GEOCODING_API_TOKEN, PyStr("Roma"), resp)]
    /\ UNCHANGED <<GEOCODING_API_TOKEN, midpoint_results, pc, data, loc, calls, response,
                   returned, nreq, listing>>

CallReverse ==
    /\ fn = NoCall
    /\ \E resp \in Responses(RevElements) :
          fn' = [op |-> "reverse_geocode", in |-> resp,
                 out |-> reverse_geocode(GEOCODING_API_TOKEN, 10, 20, resp)]
    /\ UNCHANGED <<GEOCODING_API_TOKEN, midpoint_results, pc, data, loc, calls, response,
                   returned, nreq, listing>>

NextFn == CallExtract \/ CallGeocode \/ CallReverse

SpecFn == Init /\ [][NextFn]_vars

(***************************************************************************)
(* Properties.                                                             *)
(***************************************************************************)
AllThree(d) == Truthy(d.cityA) /\ Truthy(d.cityB) /\ Truthy(d.cityC)
FirstTwo(d) == Truthy(d.cityA) /\ Truthy(d.cityB)
Rejected == response.kind = "invalid_input"
Finished == nreq > 0 /\ pc = "idle"
ErrorKinds == {"value_error", "network", "unhandled"}
TransportFailures == {"timeout", "connection", "http_error"}
CoordinateFailures == {"latitude", "longitude", "float"}
PayloadFailures ==
    {"json_decode", "api_error", "unexpected_response", "no_get", "subscript"}
        \cup CoordinateFailures
RemoteCall == response.error.ctx.op \in {"geocode", "reverse"}

C2_RejectedSendsNothing ==
    [][Rejected' =>
          /\ calls' = <<>>
          /\ pc' = "idle"
          /\ response'.status = 400 /\ response'.body = NoVal
          /\ midpoint_results' = midpoint_results]_vars

C2_Witness ==
    /\ Rejected /\ Truthy(GEOCODING_API_TOKEN)
    /\ data.t = "obj" /\ FirstTwo(data)
    /\ Len(midpoint_results) = 1

\* C3: once a remote call of a run has failed the run is over with an error
\* status and no result, and the history is not touched; a run answers with
\* a result only after three successful forward calls and a successful
\* reverse call, and only such a step appends to the history.
SomeCallFailed == \E i \in 1..Len(calls) : ~calls[i].ok
AllCallsOk == Len(calls) = 4 /\ \A i \in 1..4 : calls[i].ok

C3_NoPartialSuccess ==
    [][/\ (SomeCallFailed' \/ response'.kind \in ErrorKinds) =>
             /\ pc' = "idle"
             /\ response'.kind \in ErrorKinds
             /\ response'.status \in {400, 500, 502}
             /\ response'.body = NoVal
             /\ midpoint_results' = midpoint_results
       /\ response'.kind = "ok" => AllCallsOk'
       /\ midpoint_results' /= midpoint_results => (response'.kind = "ok" /\ AllCallsOk')]_vars

C3_Witness ==
    /\ Len(calls) = 4 /\ ~calls[4].ok
    /\ \A i \in 1..3 : calls[i].ok
    /\ response.kind = "value_error"
    /\ Len(midpoint_results) = 1

\* C4, as claimed: a run ended by a failed remote call answers 502 when the
\* failure was a timeout, a connection error or an HTTP error status, and
\* 400 when the payload was unsuccessful or wrongly shaped.
C4_TransportVersusPayload ==
    (Finished /\ response.kind \in ErrorKinds /\ RemoteCall) =>
        /\ response.error.kind \in TransportFailures => response.status = 502
        /\ response.error.kind \in PayloadFailures => response.status = 400

\* C5, as claimed: a run ended by a latitude or longitude that is absent or
\* not convertible to a number answers with the handled validation status.
C5_InvalidCoordinateHandled ==
    (Finished /\ response.kind \in ErrorKinds /\ response.error.kind \in CoordinateFailures)
        => (response.kind = "value_error" /\ response.status = 400)

\* C6: the requests a run sends are, in this order and each at most once,
\* the geocoding of cityA, cityB, cityC and the reverse geocoding of the
\* centroid of exactly the three coordinates the geocoding returned; every
\* request but the last one sent has succeeded.
ExpectedCall(i) ==
    CASE i = 1 -> [url |-> GEOCODING_URL, json |-> [address |-> data.cityA]]
      [] i = 2 -> [url |-> GEOCODING_URL, json |-> [address |-> data.cityB]]
      [] i = 3 -> [url |-> GEOCODING_URL, json |-> [address |-> data.cityC]]
      [] OTHER ->
            LET pts == << <<loc.A.lat, loc.A.lon>>, <<loc.B.lat, loc.B.lon>>,
                          <<loc.C.lat, loc.C.lon>> >>
            IN  [url |-> REVERSE_URL,
                 json |-> [type |-> "coordinates",
                           lat |-> [fn |-> "centroid_lat", pts |-> pts],
                           long |-> [fn |-> "centroid_lon", pts |-> pts]]]

C6_CallOrder ==
    /\ Len(calls) <= 4
    /\ \A i \in 1..Len(calls) : calls[i].request = ExpectedCall(i)
    /\ \A i \in 1..(Len(calls) - 1) : calls[i].ok
    /\ pc \in {"geoB", "geoC", "centroid", "reverse", "finish"} => \A i \in 1..Len(calls) : calls[i].ok
    /\ pc = "reverse" => Len(calls) = 3
    /\ pc = "finish" => Len(calls) = 4

C6_Witness ==
    /\ Len(calls) = 4 /\ calls[4].ok
    /\ loc.A.lat /= loc.B.lat

\* C7: for a payload that is a JSON object, geocode_city and reverse_geocode
\* fail with a ValueError carrying the payload when "success" is not true,
\* whatever else the payload holds; otherwise they use the top-level
\* "element" when present, else "elements"."element" when "elements" is a
\* mapping holding one, and fail with a ValueError carrying the payload when
\* neither is there.
SelectedElement(d) ==
    IF d.element.t /= "absent" THEN d.element
    ELSE IF d.elements.t = "map" /\ d.elements.element.t /= "absent" THEN d.elements.element
    ELSE ElemAbsent

RefusedWith(out, d) ==
    /\ out.exc.cls = {"ValueError"}
    /\ out.exc.kind \in {"api_error", "unexpected_response"}
    /\ out.exc.data = d

C8_MissingToken ==
    (fn.op \in {"geocode_city", "reverse_geocode"} /\ ~Truthy(GEOCODING_API_TOKEN)) =>
        /\ fn.out.exc.kind = "missing_token"
        /\ fn.out.sent = NoRequest
        /\ except_clause(fn.out.exc).status = 400
        /\ except_clause(fn.out.exc).kind = "value_error"
        /\ except_clause(fn.out.exc).error.kind = "missing_token"

C8_Witness ==
    /\ fn.op = "reverse_geocode" /\ GEOCODING_API_TOKEN = PyNone
    /\ fn.in.kind = "http" /\ fn.in.status = 200
    /\ fn.in.body.success = "True" /\ fn.in.body.element.t = "obj"
    /\ fn.out.exc.kind = "missing_token"

\* C9: after a successful run the graph has the nodes A, B, C, M and exactly
\* the edges A-M, B-M, C-M, each weighted with the haversine distance from
\* that city to the centroid, and the three paths are A-M-B, A-M-C, B-M-C,
\* whatever numbers the distances are.
HaversineToM(c) ==
    [fn |-> "haversine", args |-> <<c.lat, c.lon, loc.M.lat, loc.M.lon>>]

C9_Star ==
    response.kind = "ok" =>
        /\ DOMAIN loc.G.node = {"A", "B", "C", "M"}
        /\ loc.G.edge = {[ends |-> {"A", "M"}, weight |-> HaversineToM(loc.A)],
                         [ends |-> {"B", "M"}, weight |-> HaversineToM(loc.B)],
                         [ends |-> {"C", "M"}, weight |-> HaversineToM(loc.C)]}
        /\ response.body.distances_km.A_to_M = HaversineToM(loc.A)
        /\ response.body.distances_km.B_to_M = HaversineToM(loc.B)
        /\ response.body.distances_km.C_to_M = HaversineToM(loc.C)
        /\ response.body.graph.paths =
              [A_to_B_via_M |-> <<"A", "M", "B">>,
               A_to_C_via_M |-> <<"A", "M", "C">>,
               B_to_C_via_M |-> <<"B", "M", "C">>]

C9_Witness ==
    /\ response.kind = "ok"
    /\ loc.A.lat /= loc.C.lat
    /\ Cardinality(loc.G.edge) = 3

\* C10: the history is at every moment the sequence of the records returned
\* with status 200, in the order they were returned; a step changes it only
\* by appending the record that step returns, and neither a failed run nor
\* get_results changes it.
C10_AppendOnly ==
    /\ [](midpoint_results = returned /\ Len(midpoint_results) <= nreq)
    /\ [][\/ midpoint_results' = midpoint_results
          \/ /\ response'.kind = "ok"
             /\ midpoint_results' = Append(midpoint_results, response'.body)]_vars
    /\ [][(listing' /= listing \/ response'.kind \in ErrorKinds \cup {"invalid_input"})
             => midpoint_results' = midpoint_results]_vars

C10_Witness ==
    /\ Len(midpoint_results) = 2
    /\ midpoint_results[1] /= midpoint_results[2]
    /\ listing = midpoint_results
    /\ response.kind = "ok" /\ response.body = midpoint_results[2]

====
